---- MODULE Spec2Model ----
(***************************************************************************)
(* Model of the pigpiod emulator: the virtual serial port with its two     *)
(* circular buffers (virtual_hardware.py), the client session loop and its *)
(* serial instances (client_instances.py).                                 *)
(*                                                                         *)
(* Bytes are integers 0..255, byte strings and Python lists are sequences. *)
(* A Python index i is position i+1 of the sequence.                       *)
(***************************************************************************)
EXTENDS Integers, Sequences, FiniteSets, TLC

\* ------------------------------------------------------------------ bounds

\* Largest buffer capacity the buffer specification constructs a port with.
MaxCap == 3
\* Number of put_input/put_output calls in one run of the buffer specification.
MaxPuts == 2
\* Capacity of the two buffers of each registered port (the code's default is
\* 10000, virtual_hardware.py:67).
PortCap == 2
\* Number of requests that grow the state in one run of a session: the serial
\* instances opened plus the writes made to the buffers.
MaxOps == 3

\* ---------------------------------------------------------- Python slices

Min(a, b) == IF a < b THEN a ELSE b

\* l[a:b] for 0 <= a, 0 <= b: both ends are clipped to len(l); empty when a >= b.
PySlice(l, a, b) ==
    LET lo == Min(a, Len(l))
        hi == Min(b, Len(l))
    IN  IF lo >= hi THEN << >> ELSE SubSeq(l, lo + 1, hi)

\* l[a:b] = d for 0 <= a, 0 <= b: the clipped range is replaced by d whatever
\* the length of d; when b < a the range is the empty range at a (d is inserted).
PySetSlice(l, a, b, d) ==
    LET lo == Min(a, Len(l))
        hi0 == Min(b, Len(l))
        hi == IF hi0 < lo THEN lo ELSE hi0
    IN  SubSeq(l, 1, lo) \o d \o SubSeq(l, hi + 1, Len(l))

\* [0] * n
Zeros(n) == [i \in 1..n |-> 0]

\* ------------------------------------------------------------- SerialPort

\* SerialPort.__init__
SerialPort(port, baudrate, input_buffer_size, output_buffer_size) ==
    [ port |-> port,
      baudrate |-> baudrate,
      input_buffer_size |-> input_buffer_size,
      output_buffer_size |-> output_buffer_size,
      input_buffer_w_index |-> 0,
      output_buffer_w_index |-> 0,
      input_buffer |-> Zeros(input_buffer_size),
      output_buffer |-> Zeros(output_buffer_size) ]

\* A bind that hands out the start of the buffers.
bind_from_start(sp) == << 0, 0 >>

\* SerialPort.bind: the two write indexes, input first.
bind(sp) == << sp.input_buffer_w_index, sp.output_buffer_w_index >>

\* SerialPort.put_output: the port after the call.
put_output(sp, data) ==
    LET w == sp.output_buffer_w_index
        size == sp.output_buffer_size
        goal_index == (w + Len(data)) % size
    IN  IF w + Len(data) > size
        THEN LET b1 == PySetSlice(sp.output_buffer, w, Len(sp.output_buffer),
                                  PySlice(data, 0, size - w))
                 b2 == PySetSlice(b1, 0, goal_index,
                                  PySlice(data, size - w, Len(data)))
             IN  [sp EXCEPT !.output_buffer = b2,
                            !.output_buffer_w_index = goal_index]
        ELSE [sp EXCEPT !.output_buffer =
                            PySetSlice(sp.output_buffer, w, goal_index, data),
                        !.output_buffer_w_index = goal_index]

\* SerialPort.get_output: << to_send, goal_index >>.
get_output(sp, size, read_index) ==
    LET goal_index == (read_index + size) % sp.output_buffer_size
    IN  IF read_index + size > sp.output_buffer_size
        THEN << PySlice(sp.output_buffer, read_index, sp.output_buffer_size)
                  \o PySlice(sp.output_buffer, 0, goal_index),
                goal_index >>
        ELSE << PySlice(sp.output_buffer, read_index, goal_index), goal_index >>

\* SerialPort.put_input: the port after the call.
put_input(sp, data) ==
    LET w == sp.input_buffer_w_index
        size == sp.input_buffer_size
        goal_index == (w + Len(data)) % size
    IN  IF w + Len(data) > size
        THEN LET b1 == PySetSlice(sp.input_buffer, w, Len(sp.input_buffer),
                                  PySlice(data, 0, size - w))
                 b2 == PySetSlice(b1, 0, goal_index,
                                  PySlice(data, size - w, Len(data)))
             IN  [sp EXCEPT !.input_buffer = b2,
                            !.input_buffer_w_index = goal_index]
        ELSE [sp EXCEPT !.input_buffer =
                            PySetSlice(sp.input_buffer, w, goal_index, data),
                        !.input_buffer_w_index = goal_index]

\* SerialPort.get_input: << to_send, goal_index >>.
get_input(sp, size, read_index) ==
    LET goal_index == (read_index + size) % sp.input_buffer_size
    IN  IF read_index + size > sp.input_buffer_size
        THEN << PySlice(sp.input_buffer, read_index, sp.input_buffer_size)
                  \o PySlice(sp.input_buffer, 0, goal_index),
                goal_index >>
        ELSE << PySlice(sp.input_buffer, read_index, goal_index), goal_index >>

\* input_dat_avail without the write index in its wrapped branch.
input_dat_avail_nowrap(sp, read_index) ==
    IF sp.input_buffer_w_index > read_index
    THEN sp.input_buffer_w_index - read_index
    ELSE IF sp.input_buffer_w_index < read_index
         THEN sp.input_buffer_size - read_index
         ELSE 0

\* SerialPort.input_dat_avail
input_dat_avail(sp, read_index) ==
    IF sp.input_buffer_w_index > read_index
    THEN sp.input_buffer_w_index - read_index
    ELSE IF sp.input_buffer_w_index < read_index
         THEN sp.input_buffer_size - read_index + sp.input_buffer_w_index
         ELSE 0

\* SerialPort.output_dat_avail
output_dat_avail(sp, read_index) ==
    IF sp.output_buffer_w_index > read_index
    THEN sp.output_buffer_w_index - read_index
    ELSE IF sp.output_buffer_w_index < read_index
         THEN sp.output_buffer_size - read_index + sp.output_buffer_w_index
         ELSE 0

\* ------------------------------------------------------------------ state

VARIABLES
    serialports,         \* VirtualHardware.serialports: sequence of SerialPort
    client_connections,  \* PigpiodEmulator.client_connections: sequence of
                         \* PigpioClient records, each with its two sockets
    last,          \* the last operation performed, its arguments, what it
                   \* sent or returned, and the state before it
    nputs,         \* number of writes made to the buffers
    written,       \* per port, the bytes written so far to its in buffer
                   \* and to its out buffer, in write order
    pigpiod,       \* the PigpiodEmulator thread: want_stop, its listening
                   \* socket main_server, and where its run() stands
    bound,         \* per client and serial instance: how many bytes the in
                   \* buffer had been written when it was bound, the SERR
                   \* payloads sent through it so far, and whether its
                   \* unread backlog ever reached the capacity
    pending        \* the call in progress (one per client thread where
                   \* several are followed), when its steps are followed
                   \* one by one

vars == << serialports, client_connections, last, nputs, written,
           pigpiod, bound, pending >>

\* PigpiodEmulator.__init__, and the thread once run() is in its accept loop.
\* pc: "init" (not started), "accept" (in the while loop), "stopping" (past
\* the while loop), "closed" (run returned), "crashed" (run ended by an
\* exception that nothing catches), "accept2" (in the while loop, the first
\* accept of an iteration has returned). accepted: the number of
\* connections accept has returned. greeted: per connection pair accepted,
\* what establish_connection sent on its notification connection.
PigpiodEmulator ==
    [ want_stop |-> FALSE, main_server |-> "open", pc |-> "init",
      accepted |-> 0, greeted |-> << >> ]

Accepting == [PigpiodEmulator EXCEPT !.pc = "accept"]

\* No read_request call is being followed step by step.
NoPending == [ pc |-> "none", client |-> 0, handle |-> 0, n |-> 0,
               size |-> 0, avail |-> 0 ]

\* What is recorded when a serial instance is bound to a port whose in
\* buffer has been written the bytes of stream so far.
BoundAt(stream) == [ at |-> Len(stream), got |-> << >>, overflow |-> FALSE ]

\* ------------------------------------------- specification of one port

\* A call writing len bytes to a buffer that was written n bytes so far
\* writes the byte values n+1 .. n+len (mod 128, all ASCII), so that every
\* byte of the stream is told apart from its neighbours and from the zeros
\* of a fresh buffer.
TaggedData(n, len) == [i \in 1..len |-> (n + i) % 128]

NoneWritten(ports) == [p \in 1..Len(ports) |-> [in |-> << >>, out |-> << >>]]

NoOp == [ op |-> "none", data |-> << >>, size |-> 0, read_index |-> 0,
          ret |-> << >>, pre |-> << >> ]

BufInit ==
    /\ \E c_in \in 1..MaxCap, c_out \in 1..MaxCap :
          serialports = << SerialPort(<< 97 >>, 115200, c_in, c_out) >>
    /\ client_connections = << >>
    /\ last = NoOp
    /\ nputs = 0
    /\ written = NoneWritten(serialports)
    /\ pigpiod = PigpiodEmulator
    /\ bound = << >>
    /\ pending = NoPending

BufPutInput ==
    /\ nputs < MaxPuts
    /\ \E len \in 0..(2 * serialports[1].input_buffer_size - 1) :
         LET data == TaggedData(Len(written[1].in), len)
         IN  /\ serialports' = << put_input(serialports[1], data) >>
             /\ last' = [NoOp EXCEPT !.op = "put_input", !.data = data,
                                     !.pre = serialports[1]]
             /\ written' = [written EXCEPT ![1].in = @ \o data]
    /\ nputs' = nputs + 1
    /\ UNCHANGED << client_connections, pigpiod, bound, pending >>

BufPutOutput ==
    /\ nputs < MaxPuts
    /\ \E len \in 0..(2 * serialports[1].output_buffer_size - 1) :
         LET data == TaggedData(Len(written[1].out), len)
         IN  /\ serialports' = << put_output(serialports[1], data) >>
             /\ last' = [NoOp EXCEPT !.op = "put_output", !.data = data,
                                     !.pre = serialports[1]]
             /\ written' = [written EXCEPT ![1].out = @ \o data]
    /\ nputs' = nputs + 1
    /\ UNCHANGED << client_connections, pigpiod, bound, pending >>

\* A get_input that clears the storage once it has read from it.
BufGetInput_consume ==
    /\ \E read_index \in 0..(serialports[1].input_buffer_size - 1),
          size \in 0..serialports[1].input_buffer_size :
         /\ last' = [NoOp EXCEPT !.op = "get_input", !.size = size,
                                 !.read_index = read_index,
                                 !.ret = get_input(serialports[1], size, read_index),
                                 !.pre = serialports[1]]
         /\ serialports' = [serialports EXCEPT ![1].input_buffer =
                               IF size = 0 THEN @ ELSE Zeros(Len(@))]
    /\ UNCHANGED << client_connections, nputs, written,
                    pigpiod, bound, pending >>

BufGetInput ==
    /\ \E read_index \in 0..(serialports[1].input_buffer_size - 1),
          size \in 0..serialports[1].input_buffer_size :
         last' = [NoOp EXCEPT !.op = "get_input", !.size = size,
                              !.read_index = read_index,
                              !.ret = get_input(serialports[1], size, read_index),
                              !.pre = serialports[1]]
    /\ UNCHANGED << serialports, client_connections, nputs, written,
                    pigpiod, bound, pending >>

BufGetOutput ==
    /\ \E read_index \in 0..(serialports[1].output_buffer_size - 1),
          size \in 0..serialports[1].output_buffer_size :
         last' = [NoOp EXCEPT !.op = "get_output", !.size = size,
                              !.read_index = read_index,
                              !.ret = get_output(serialports[1], size, read_index),
                              !.pre = serialports[1]]
    /\ UNCHANGED << serialports, client_connections, nputs, written,
                    pigpiod, bound, pending >>

BufInputDatAvail ==
    /\ \E read_index \in 0..(serialports[1].input_buffer_size - 1) :
         last' = [NoOp EXCEPT !.op = "input_dat_avail",
                              !.read_index = read_index,
                              !.ret = input_dat_avail(serialports[1], read_index),
                              !.pre = serialports[1]]
    /\ UNCHANGED << serialports, client_connections, nputs, written,
                    pigpiod, bound, pending >>

BufOutputDatAvail ==
    /\ \E read_index \in 0..(serialports[1].output_buffer_size - 1) :
         last' = [NoOp EXCEPT !.op = "output_dat_avail",
                              !.read_index = read_index,
                              !.ret = output_dat_avail(serialports[1], read_index),
                              !.pre = serialports[1]]
    /\ UNCHANGED << serialports, client_connections, nputs, written,
                    pigpiod, bound, pending >>

BufNext ==
    \/ BufPutInput
    \/ BufPutOutput
    \/ BufGetInput
    \/ BufGetOutput
    \/ BufInputDatAvail
    \/ BufOutputDatAvail

SpecBuf == BufInit /\ [][BufNext]_vars

\* ------------------------------------------------ pigpio command numbers

PI_CMD_SERO == 76
PI_CMD_SERC == 77
PI_CMD_SERRB == 78
PI_CMD_SERWB == 79
PI_CMD_SERR == 80
PI_CMD_SERW == 81
PI_CMD_SERDA == 82

\* ------------------------------------------------------- bytes and words

\* bytes.decode('ascii') raises unless every byte is below 128; the decoded
\* string then has the bytes as its code points.
AsciiValid(s) == \A i \in 1..Len(s) : s[i] < 128

IsCont(b) == b >= 128 /\ b <= 191

\* bytes.decode('utf-8') raises unless the bytes are well-formed UTF-8.
RECURSIVE Utf8Valid(_)
Utf8Valid(s) ==
    IF s = << >> THEN TRUE
    ELSE LET b == s[1]
             n == Len(s)
         IN  IF b < 128 THEN Utf8Valid(Tail(s))
             ELSE IF b >= 194 /\ b <= 223
             THEN n >= 2 /\ IsCont(s[2]) /\ Utf8Valid(SubSeq(s, 3, n))
             ELSE IF b >= 224 /\ b <= 239
             THEN /\ n >= 3 /\ IsCont(s[2]) /\ IsCont(s[3])
                  /\ (b = 224 => s[2] >= 160)
                  /\ (b = 237 => s[2] <= 159)
                  /\ Utf8Valid(SubSeq(s, 4, n))
             ELSE IF b >= 240 /\ b <= 244
             THEN /\ n >= 4 /\ IsCont(s[2]) /\ IsCont(s[3]) /\ IsCont(s[4])
                  /\ (b = 240 => s[2] >= 144)
                  /\ (b = 244 => s[2] <= 143)
                  /\ Utf8Valid(SubSeq(s, 5, n))
             ELSE FALSE

\* struct.unpack('I', b)[0] of four bytes, little-endian.
UnpackI(b) == b[1] + 256 * b[2] + 65536 * b[3] + 16777216 * b[4]

\* The four bytes struct.pack('I', n) gives.
PackI(n) == << n % 256, (n \div 256) % 256, (n \div 65536) % 256,
               (n \div 16777216) % 256 >>

\* One send() of struct.pack('IIII', a, b, c, d) (or 'IIIi'): four 32-bit
\* words; and one send() of raw bytes.
Words(a, b, c, d) == [ kind |-> "words", v |-> << a, b, c, d >> ]
Raw(b) == [ kind |-> "raw", v |-> b ]

\* ---------------------------------------------------- PigpioSerialInstance

\* A serial instance whose handle counts from one.
PigpioSerialInstance_from1(serialport, handle_id) ==
    [ serialport |-> serialport,
      handle_id |-> handle_id + 1,
      input_buffer_r_index |-> 0,
      output_buffer_r_index |-> 0 ]

\* PigpioSerialInstance.__init__; serialport is the index of the port in
\* serialports (the code holds a reference to the SerialPort object).
PigpioSerialInstance(serialport, handle_id) ==
    [ serialport |-> serialport,
      handle_id |-> handle_id,
      input_buffer_r_index |-> 0,
      output_buffer_r_index |-> 0 ]

\* PigpioSerialInstance.open: the instance after the call and what it sent.
open(inst, sp) ==
    [ inst |-> [inst EXCEPT !.input_buffer_r_index = bind(sp)[1],
                            !.output_buffer_r_index = bind(sp)[2]],
      sent |-> << Words(0, 0, 0, inst.handle_id) >> ]

\* PigpioSerialInstance.close: what it sent (it changes nothing).
close(inst) == << Words(0, 0, 0, inst.handle_id) >>

\* PigpioSerialInstance.write_request: the port after the call, whether the
\* call raised (the decode of the log line), and what it sent.
write_request(inst, sp, data) ==
    LET to_add == SubSeq(data, 5, Len(data))
        raised == ~Utf8Valid(to_add)
    IN  [ sp |-> put_output(sp, to_add),
          raised |-> raised,
          sent |-> IF raised THEN << >>
                   ELSE << Words(0, 0, 0, inst.handle_id) >> ]

\* PigpioSerialInstance.read_request: the instance after the call, whether
\* the call raised (the decode of the log line), and what it sent.
read_request(inst, sp, size) ==
    LET size1 == IF size > input_dat_avail(sp, inst.input_buffer_r_index)
                 THEN input_dat_avail(sp, inst.input_buffer_r_index)
                 ELSE size
        got == get_input(sp, size1, inst.input_buffer_r_index)
        to_send == got[1]
        raised == ~Utf8Valid(to_send)
    IN  [ inst |-> [inst EXCEPT !.input_buffer_r_index = got[2]],
          raised |-> raised,
          sent |-> IF raised THEN << >>
                   ELSE << Words(0, 0, 0, Len(to_send)), Raw(to_send) >> ]

\* data_available_request reading at the out-side cursor.
data_available_request_outcursor(inst, sp) ==
    << Words(0, 0, 0, input_dat_avail(sp, inst.output_buffer_r_index)) >>

\* PigpioSerialInstance.data_available_request: what it sent.
data_available_request(inst, sp) ==
    << Words(0, 0, 0, input_dat_avail(sp, inst.input_buffer_r_index)) >>

\* ------------------------------------------------------------ PigpioClient

\* The local variable ext of PigpioClient.run: unbound until a frame with
\* p3 != 0 arrives, then bytes, and a str once SERO has decoded it.
ExtUnbound == [ kind |-> "unbound", v |-> << >> ]
ExtBytes(b) == [ kind |-> "bytes", v |-> b ]
ExtStr(s) == [ kind |-> "str", v |-> s ]

\* The greeting frame.
Greeting == Words(10, 0, 0, 0)

\* PigpioClient.__init__ for the pair of sockets establish_connection
\* returned: the notification socket has already carried one greeting.
\* pc: "start" (thread started), "loop" (in the while loop), "done" (run
\* returned), "crashed" (run ended by an exception that nothing catches).
PigpioClient(id) ==
    [ id |-> id,
      want_stop |-> FALSE,
      serial_instances |-> << >>,
      pc |-> "start",
      ext |-> ExtUnbound,
      main_conn |-> "open",
      notification_conn |-> "open",
      notification_sent |-> << Greeting >> ]

\* p2 after `p2 += ext`, and the local ext after the frame was read.
FrameP2(f) == IF f.p3 # 0 THEN f.p2 \o f.ext ELSE f.p2
FrameExt(c, f) == IF f.p3 # 0 THEN ExtBytes(f.ext) ELSE c.ext

Raise(c) == [c EXCEPT !.pc = "crashed"]

\* Index of the first port of serialports with this name and baud rate,
\* 0 when the for loop ends without a break.
FindPort(ports, name, baudrate) ==
    LET hits == { k \in 1..Len(ports) :
                    ports[k].port = name /\ ports[k].baudrate = baudrate }
    IN  IF hits = {} THEN 0
        ELSE CHOOSE k \in hits : \A j \in hits : k <= j

\* One iteration of the loop of PigpioClient.run on a complete frame f:
\* the client after it, the ports after it, what was sent on main_conn.
run_SERO(c, ports, f) ==
    LET ext == FrameExt(c, f)
        c1 == [c EXCEPT !.ext = ext]
    IN  IF ext.kind # "bytes" \/ ~AsciiValid(ext.v)
        THEN [ client |-> Raise(c1), ports |-> ports, sent |-> << >> ]
        ELSE LET k == FindPort(ports, ext.v, f.p1)
                 c2 == [c1 EXCEPT !.ext = ExtStr(ext.v)]
             IN  IF k # 0
                 THEN LET o == open(PigpioSerialInstance(
                                       k, Len(c.serial_instances)), ports[k])
                      IN  [ client |-> [c2 EXCEPT !.serial_instances =
                                           Append(c.serial_instances, o.inst)],
                            ports |-> ports,
                            sent |-> o.sent ]
                 ELSE [ client |-> c2, ports |-> ports,
                        sent |-> << Words(0, 0, 0, -1) >> ]

\* A SERC branch that takes the closed instance out of the list.
run_SERC_remove(c, ports, f) ==
    LET c1 == [c EXCEPT !.ext = FrameExt(c, f)]
    IN  IF f.p1 >= Len(c.serial_instances)
        THEN [ client |-> Raise(c1), ports |-> ports, sent |-> << >> ]
        ELSE [ client |-> [c1 EXCEPT !.serial_instances =
                              SubSeq(@, 1, f.p1)
                                \o SubSeq(@, f.p1 + 2, Len(@))],
               ports |-> ports,
               sent |-> close(c.serial_instances[f.p1 + 1]) ]

run_SERC(c, ports, f) ==
    LET c1 == [c EXCEPT !.ext = FrameExt(c, f)]
    IN  IF f.p1 >= Len(c.serial_instances)
        THEN [ client |-> Raise(c1), ports |-> ports, sent |-> << >> ]
        ELSE [ client |-> c1, ports |-> ports,
               sent |-> close(c.serial_instances[f.p1 + 1]) ]

run_SERW(c, ports, f) ==
    LET c1 == [c EXCEPT !.ext = FrameExt(c, f)]
    IN  IF f.p1 >= Len(c.serial_instances)
        THEN [ client |-> Raise(c1), ports |-> ports, sent |-> << >> ]
        ELSE LET inst == c.serial_instances[f.p1 + 1]
                 w == write_request(inst, ports[inst.serialport], FrameP2(f))
             IN  [ client |-> IF w.raised THEN Raise(c1) ELSE c1,
                   ports |-> [ports EXCEPT ![inst.serialport] = w.sp],
                   sent |-> w.sent ]

run_SERR(c, ports, f) ==
    LET c1 == [c EXCEPT !.ext = FrameExt(c, f)]
    IN  IF Len(FrameP2(f)) # 4 \/ f.p1 >= Len(c.serial_instances)
        THEN [ client |-> Raise(c1), ports |-> ports, sent |-> << >> ]
        ELSE LET inst == c.serial_instances[f.p1 + 1]
                 r == read_request(inst, ports[inst.serialport],
                                   UnpackI(FrameP2(f)))
                 c2 == [c1 EXCEPT !.serial_instances[f.p1 + 1] = r.inst]
             IN  [ client |-> IF r.raised THEN Raise(c2) ELSE c2,
                   ports |-> ports,
                   sent |-> r.sent ]

run_SERDA(c, ports, f) ==
    LET c1 == [c EXCEPT !.ext = FrameExt(c, f)]
    IN  IF f.p1 >= Len(c.serial_instances)
        THEN [ client |-> Raise(c1), ports |-> ports, sent |-> << >> ]
        ELSE LET inst == c.serial_instances[f.p1 + 1]
             IN  [ client |-> c1, ports |-> ports,
                   sent |-> data_available_request(inst,
                                                   ports[inst.serialport]) ]

\* The unknown-command branch answering with an error frame.
run_other_reply(c, ports, f) ==
    [ client |-> [c EXCEPT !.ext = FrameExt(c, f)], ports |-> ports,
      sent |-> << Words(0, 0, 0, -1) >> ]

run_other(c, ports, f) ==
    [ client |-> [c EXCEPT !.ext = FrameExt(c, f)], ports |-> ports,
      sent |-> << >> ]

run_frame(c, ports, f) ==
    IF f.cmd = PI_CMD_SERO THEN run_SERO(c, ports, f)
    ELSE IF f.cmd = PI_CMD_SERC THEN run_SERC(c, ports, f)
    ELSE IF f.cmd = PI_CMD_SERW THEN run_SERW(c, ports, f)
    ELSE IF f.cmd = PI_CMD_SERR THEN run_SERR(c, ports, f)
    ELSE IF f.cmd = PI_CMD_SERDA THEN run_SERDA(c, ports, f)
    ELSE run_other(c, ports, f)

\* ------------------------------------------------- the frames clients send

\* Names and bit rates of the registered ports ("/dev/A", "/dev/U").
PortNameA == << 47, 100, 101, 118, 47, 65 >>
PortNameU == << 47, 100, 101, 118, 47, 85 >>
Baud == 115200
OtherBaud == 9600

Frame(cmd, p1, p2, ext) ==
    [ cmd |-> cmd, p1 |-> p1, p2 |-> p2, p3 |-> Len(ext), ext |-> ext ]

NoP2 == << 0, 0, 0, 0 >>

\* SERO as pigpio sends it (p2 = flags, extension = device name), with the
\* name split over p2 and the extension, with another bit rate, without
\* extension, and with an extension that is not ASCII.
SeroFrames ==
    { Frame(PI_CMD_SERO, Baud, NoP2, PortNameA),
      Frame(PI_CMD_SERO, Baud, NoP2, PortNameU),
      Frame(PI_CMD_SERO, Baud, SubSeq(PortNameA, 1, 4), SubSeq(PortNameA, 5, 6)),
      Frame(PI_CMD_SERO, OtherBaud, NoP2, PortNameA),
      Frame(PI_CMD_SERO, Baud, NoP2, << >>),
      Frame(PI_CMD_SERO, Baud, NoP2, << 200 >>) }

\* The handles frames carry: the first two a client is given (the second
\* one names no instance while the client has opened at most one).
Handles == 0..1

SercFrames == { Frame(PI_CMD_SERC, h, NoP2, << >>) : h \in Handles }

\* The lengths of the byte strings written: one byte, and as many bytes as
\* a buffer holds.
WriteLens == { 1, PortCap }

\* SERW from client c: no byte, one byte or PortCap bytes, fresh for the out
\* buffer of the port the handle is bound to, and one byte that is not UTF-8.
OutWritten(c, h) ==
    IF h < Len(c.serial_instances)
    THEN Len(written[c.serial_instances[h + 1].serialport].out)
    ELSE 0

SerwFrames(c) ==
    { Frame(PI_CMD_SERW, h, NoP2, TaggedData(OutWritten(c, h), n)) :
        h \in Handles, n \in { 0 } \cup WriteLens }
    \cup { Frame(PI_CMD_SERW, h, NoP2, << 200 >>) : h \in Handles }

\* SERR for 0..PortCap bytes, and one SERR that carries an extension.
SerrFrames ==
    { Frame(PI_CMD_SERR, h, PackI(n), << >>) :
        h \in Handles, n \in 0..PortCap }
    \cup { Frame(PI_CMD_SERR, 0, PackI(1), << 1 >>) }

SerdaFrames == { Frame(PI_CMD_SERDA, h, NoP2, << >>) : h \in Handles }

\* Frames of other commands: SERRB, a command number pigpio does not have,
\* and a SERWB that carries an extension.
OtherFrames ==
    { Frame(PI_CMD_SERRB, 0, NoP2, << >>),
      Frame(99, 0, NoP2, << >>),
      Frame(PI_CMD_SERWB, 0, NoP2, PortNameA) }

\* --------------------------------------------- specification of a session

NoOpS == [ op |-> "none", client |-> 0, port |-> 0, frame |-> Frame(0, 0, NoP2, << >>),
           data |-> << >>, sent |-> << >>,
           pre_ports |-> << >>, pre_client |-> << >>,
           pre_clients |-> << >> ]

\* The registry of the tools' main programs, and one client constructed
\* over it the way PigpiodEmulator.run constructs it (after
\* establish_connection sent its greeting), its thread started.
Init ==
    /\ serialports = << SerialPort(PortNameA, Baud, PortCap, PortCap),
                        SerialPort(PortNameU, Baud, PortCap, PortCap) >>
    /\ client_connections = << PigpioClient(0) >>
    /\ last = NoOpS
    /\ nputs = 0
    /\ written = NoneWritten(serialports)
    /\ pigpiod = Accepting
    /\ bound = << << >> >>
    /\ pending = NoPending

\* PigpioClient.run up to the loop: the greeting on the notification socket.
RunStart(i) ==
    /\ client_connections[i].pc = "start"
    /\ client_connections' = [client_connections EXCEPT
           ![i].pc = "loop",
           ![i].notification_sent = Append(@, Greeting)]
    /\ last' = [NoOpS EXCEPT !.op = "start", !.client = i,
                             !.pre_ports = serialports,
                             !.pre_client = client_connections[i],
                             !.pre_clients = client_connections]
    /\ UNCHANGED << serialports, nputs, written, pigpiod, bound, pending >>

\* The record of client c's serial instances after its frame f gave r: a
\* new instance is recorded with the in stream of its port as it is at the
\* bind, and the payload a SERR sent is appended to what its instance got.
BoundAfterFrame(b, c, r, f) ==
    IF Len(r.client.serial_instances) > Len(c.serial_instances)
    THEN Append(b, BoundAt(written[r.client.serial_instances[
                               Len(r.client.serial_instances)].serialport].in))
    ELSE IF f.cmd = PI_CMD_SERR /\ Len(r.sent) = 2
    THEN [b EXCEPT ![f.p1 + 1].got = @ \o r.sent[2].v]
    ELSE b

\* One iteration of the loop on frame f.
RunFrame(i, f, op) ==
    LET c == client_connections[i]
        r == run_frame(c, serialports, f)
    IN  /\ c.pc = "loop"
        /\ ~c.want_stop
        /\ client_connections' = [client_connections EXCEPT ![i] = r.client]
        /\ serialports' = r.ports
        /\ last' = [NoOpS EXCEPT !.op = op, !.client = i, !.frame = f,
                                 !.sent = r.sent,
                                 !.pre_ports = serialports,
                                 !.pre_client = c,
                                 !.pre_clients = client_connections]
        /\ bound' = [bound EXCEPT ![i] = BoundAfterFrame(@, c, r, f)]

\* The requests that grow the state made so far.
RECURSIVE Opened(_)
Opened(clients) ==
    IF clients = << >> THEN 0
    ELSE Len(clients[1].serial_instances) + Opened(Tail(clients))

Ops == nputs + Opened(client_connections)

RunSERO(i) ==
    /\ Ops < MaxOps
    /\ \E f \in SeroFrames : RunFrame(i, f, "SERO")
    /\ UNCHANGED << nputs, written, pigpiod, pending >>

RunSERC(i) ==
    /\ \E f \in SercFrames : RunFrame(i, f, "SERC")
    /\ UNCHANGED << nputs, written, pigpiod, pending >>

RunSERW(i) ==
    /\ Ops < MaxOps
    /\ \E f \in SerwFrames(client_connections[i]) :
         /\ RunFrame(i, f, "SERW")
         /\ written' =
              IF f.p1 < Len(client_connections[i].serial_instances)
              THEN [written EXCEPT
                      ![client_connections[i].serial_instances[f.p1 + 1]
                          .serialport].out = @ \o f.ext]
              ELSE written
    /\ nputs' = nputs + 1
    /\ UNCHANGED << pigpiod, pending >>

RunSERR(i) ==
    /\ \E f \in SerrFrames : RunFrame(i, f, "SERR")
    /\ UNCHANGED << nputs, written, pigpiod, pending >>

RunSERDA(i) ==
    /\ \E f \in SerdaFrames : RunFrame(i, f, "SERDA")
    /\ UNCHANGED << nputs, written, pigpiod, pending >>

RunOther(i) ==
    /\ \E f \in OtherFrames : RunFrame(i, f, "other")
    /\ UNCHANGED << nputs, written, pigpiod, pending >>

\* recv returns b'': the peer closed the primary socket; the loop is left
\* and both sockets are closed.
RunDisconnect(i) ==
    /\ client_connections[i].pc = "loop"
    /\ ~client_connections[i].want_stop
    /\ client_connections' = [client_connections EXCEPT
           ![i].pc = "done",
           ![i].main_conn = "closed",
           ![i].notification_conn = "closed"]
    /\ last' = [NoOpS EXCEPT !.op = "disconnect", !.client = i,
                             !.pre_ports = serialports,
                             !.pre_client = client_connections[i],
                             !.pre_clients = client_connections]
    /\ UNCHANGED << serialports, nputs, written, pigpiod, bound, pending >>

\* The record of the serial instances after a put_input on port p that
\* brought its in stream to n bytes: an instance of p whose unread backlog
\* reaches the capacity is marked.
BoundAfterPut(p, n) ==
    [i \in 1..Len(bound) |->
       [h \in 1..Len(bound[i]) |->
          IF /\ client_connections[i].serial_instances[h].serialport = p
             /\ n - bound[i][h].at - Len(bound[i][h].got)
                  >= serialports[p].input_buffer_size
          THEN [bound[i][h] EXCEPT !.overflow = TRUE]
          ELSE bound[i][h]]]

\* A write of len bytes to the in buffer of sp goes past the unread position
\* of a reader whose cursor is read_index.
Overrun(sp, read_index, len) ==
    /\ input_dat_avail(sp, read_index) > 0
    /\ input_dat_avail(sp, read_index) + len > sp.input_buffer_size

\* Some serial instance of port p would be overrun by a write of len bytes.
SomeOverrun(p, len) ==
    \E i \in 1..Len(client_connections) :
       \E h \in 1..Len(client_connections[i].serial_instances) :
          /\ client_connections[i].serial_instances[h].serialport = p
          /\ Overrun(serialports[p],
                     client_connections[i].serial_instances[h]
                        .input_buffer_r_index, len)

\* A device whose put is dropped when it would overrun a reader.
DevicePutInput_drop(p) ==
    /\ Ops < MaxOps
    /\ \E i \in 1..Len(client_connections) :
          client_connections[i].pc \in { "start", "loop" }
    /\ \E data \in { TaggedData(Len(written[p].in), n) : n \in WriteLens }
                     \cup { << 200 >> } :
         /\ serialports' = IF SomeOverrun(p, Len(data)) THEN serialports
                           ELSE [serialports EXCEPT ![p] = put_input(@, data)]
         /\ last' = [NoOpS EXCEPT !.op = "put_input", !.port = p,
                                  !.data = data,
                                  !.pre_ports = serialports,
                                  !.pre_clients = client_connections]
         /\ written' = [written EXCEPT ![p].in = @ \o data]
         /\ bound' = BoundAfterPut(p, Len(written[p].in) + Len(data))
    /\ nputs' = nputs + 1
    /\ UNCHANGED << client_connections, pigpiod, pending >>

\* The emulated device (the tools' receive threads and text window) puts
\* bytes into the in buffer of port p: one or PortCap fresh bytes, or one
\* byte that is not UTF-8. A run is followed while a client thread is alive.
DevicePutInput(p) ==
    /\ Ops < MaxOps
    /\ \E i \in 1..Len(client_connections) :
          client_connections[i].pc \in { "start", "loop" }
    /\ \E data \in { TaggedData(Len(written[p].in), n) : n \in WriteLens }
                     \cup { << 200 >> } :
         /\ serialports' = [serialports EXCEPT ![p] = put_input(@, data)]
         /\ last' = [NoOpS EXCEPT !.op = "put_input", !.port = p,
                                  !.data = data,
                                  !.pre_ports = serialports,
                                  !.pre_clients = client_connections]
         /\ written' = [written EXCEPT ![p].in = @ \o data]
         /\ bound' = BoundAfterPut(p, Len(written[p].in) + Len(data))
    /\ nputs' = nputs + 1
    /\ UNCHANGED << client_connections, pigpiod, pending >>

Clients == 1..Len(client_connections)

Next ==
    \/ \E i \in Clients : RunStart(i)
    \/ \E i \in Clients : RunSERO(i)
    \/ \E i \in Clients : RunSERC(i)
    \/ \E i \in Clients : RunSERW(i)
    \/ \E i \in Clients : RunSERR(i)
    \/ \E i \in Clients : RunSERDA(i)
    \/ \E i \in Clients : RunOther(i)
    \/ \E i \in Clients : RunDisconnect(i)
    \/ \E p \in 1..Len(serialports) : DevicePutInput(p)

Spec == Init /\ [][Next]_vars

\* ============================================================== claims

\* The port of the buffer specification and the state it had before the
\* last operation.
BufPort == serialports[1]

\* Last n elements of s.
LastN(s, n) == SubSeq(s, Len(s) - n + 1, Len(s))

\* C1: after one put_input (put_output) of s with len(s) <= capacity, a reader
\* whose cursor is the write cursor as it was before the write sees
\* input_dat_avail (output_dat_avail) = len(s), and get_input (get_output) of
\* len(s) bytes from that cursor returns exactly s.
C1_RoundTrip ==
    /\ (last.op = "put_input" /\ Len(last.data) <= last.pre.input_buffer_size)
         => /\ input_dat_avail(BufPort, last.pre.input_buffer_w_index)
                 = Len(last.data)
            /\ get_input(BufPort, Len(last.data),
                         last.pre.input_buffer_w_index)[1] = last.data
    /\ (last.op = "put_output" /\ Len(last.data) <= last.pre.output_buffer_size)
         => /\ output_dat_avail(BufPort, last.pre.output_buffer_w_index)
                 = Len(last.data)
            /\ get_output(BufPort, Len(last.data),
                          last.pre.output_buffer_w_index)[1] = last.data

\* C2: after one write of C+k bytes (0 < k < C) from write cursor w0, reading
\* k bytes from cursor w0 returns exactly the last k bytes written.
C2_WrapCorrect ==
    /\ (/\ last.op = "put_output"
        /\ Len(last.data) > last.pre.output_buffer_size
        /\ Len(last.data) < 2 * last.pre.output_buffer_size)
         => LET k == Len(last.data) - last.pre.output_buffer_size
            IN  get_output(BufPort, k, last.pre.output_buffer_w_index)[1]
                  = LastN(last.data, k)
    /\ (/\ last.op = "put_input"
        /\ Len(last.data) > last.pre.input_buffer_size
        /\ Len(last.data) < 2 * last.pre.input_buffer_size)
         => LET k == Len(last.data) - last.pre.input_buffer_size
            IN  get_input(BufPort, k, last.pre.input_buffer_w_index)[1]
                  = LastN(last.data, k)

\* C3: for every cursor in 0..capacity-1, input_dat_avail and output_dat_avail
\* return (write cursor - cursor) mod capacity, a value in 0..capacity-1 that
\* is 0 when the cursor equals the write cursor (also right after a write of
\* exactly capacity bytes, one full lap); a call that was made returned it.
C3_DatAvail ==
    /\ \A c \in 0..(BufPort.input_buffer_size - 1) :
         /\ input_dat_avail(BufPort, c)
              = (BufPort.input_buffer_w_index - c) % BufPort.input_buffer_size
         /\ input_dat_avail(BufPort, c) \in 0..(BufPort.input_buffer_size - 1)
         /\ c = BufPort.input_buffer_w_index => input_dat_avail(BufPort, c) = 0
    /\ \A c \in 0..(BufPort.output_buffer_size - 1) :
         /\ output_dat_avail(BufPort, c)
              = (BufPort.output_buffer_w_index - c) % BufPort.output_buffer_size
         /\ output_dat_avail(BufPort, c) \in 0..(BufPort.output_buffer_size - 1)
         /\ c = BufPort.output_buffer_w_index => output_dat_avail(BufPort, c) = 0
    /\ last.op = "input_dat_avail"
         => last.ret = (BufPort.input_buffer_w_index - last.read_index)
                          % BufPort.input_buffer_size
    /\ last.op = "output_dat_avail"
         => last.ret = (BufPort.output_buffer_w_index - last.read_index)
                          % BufPort.output_buffer_size
    /\ (last.op = "put_input" /\ Len(last.data) = BufPort.input_buffer_size)
         => input_dat_avail(BufPort, last.pre.input_buffer_w_index) = 0

\* C3 witness: input_dat_avail was called with a cursor ahead of the write
\* cursor and returned the wrapped, positive count.
C3_Witness ==
    /\ last.op = "input_dat_avail"
    /\ last.read_index > BufPort.input_buffer_w_index
    /\ BufPort.input_buffer_w_index > 0
    /\ last.ret = BufPort.input_buffer_size - last.read_index
                    + BufPort.input_buffer_w_index

\* ------------------------------------------------- claims on the session

\* The last operation was one iteration of a client's loop on last.frame.
LastIsFrame == last.op \in { "SERO", "SERC", "SERW", "SERR", "SERDA", "other" }

\* The client of the last operation as it is now and as it was before.
PostClient == client_connections[last.client]
PreClient == last.pre_client

\* The frame's handle p1 named a serial instance before the frame.
HandleOpen == last.frame.p1 < Len(PreClient.serial_instances)

\* The serial instance the frame's handle named, and the index of its port.
PreInst == PreClient.serial_instances[last.frame.p1 + 1]
PrePortOf == PreInst.serialport

\* Some registered port has this name and this bit rate.
Registered(name, baudrate) ==
    \E k \in 1..Len(last.pre_ports) :
        /\ last.pre_ports[k].port = name
        /\ last.pre_ports[k].baudrate = baudrate

\* The client's list of serial instances grew by exactly one instance, bound
\* to a port with this name and bit rate and carrying its own index as handle.
AppendedOne(name, baudrate) ==
    /\ Len(PostClient.serial_instances) = Len(PreClient.serial_instances) + 1
    /\ SubSeq(PostClient.serial_instances, 1, Len(PreClient.serial_instances))
         = PreClient.serial_instances
    /\ LET inst == PostClient.serial_instances[Len(PostClient.serial_instances)]
       IN  /\ inst.handle_id = Len(PreClient.serial_instances)
           /\ serialports[inst.serialport].port = name
           /\ serialports[inst.serialport].baudrate = baudrate

C5_SeroFailure ==
    (/\ LastIsFrame
     /\ last.frame.cmd = PI_CMD_SERO
     /\ ~Registered(last.frame.ext, last.frame.p1))
      => /\ last.sent = << Words(0, 0, 0, -1) >>
         /\ PostClient.serial_instances = PreClient.serial_instances
         /\ PostClient.pc = "loop"

\* C6: a SERC on an open handle h is answered with {0,0,0,h} and removes the
\* serial instance: afterwards the client holds no instance with handle h;
\* the ports are unchanged.
C6_SercRemoves ==
    (/\ LastIsFrame
     /\ last.frame.cmd = PI_CMD_SERC
     /\ HandleOpen)
      => /\ last.sent = << Words(0, 0, 0, last.frame.p1) >>
         /\ \A k \in 1..Len(PostClient.serial_instances) :
               PostClient.serial_instances[k].handle_id # last.frame.p1
         /\ serialports = last.pre_ports

\* C7: after a SERW on an open handle h with payload b the client has sent
\* {0,0,0,h}; a reader whose cursor is the out write cursor as it was before
\* the SERW gets output_dat_avail = len(b) and get_output returns b; the in
\* buffer and the read cursors of the serial instances are unchanged.
C7_SerwRoundTrip ==
    (/\ LastIsFrame
     /\ last.frame.cmd = PI_CMD_SERW
     /\ HandleOpen)
      => LET b == last.frame.ext
             w0 == last.pre_ports[PrePortOf].output_buffer_w_index
             sp == serialports[PrePortOf]
         IN  /\ last.sent = << Words(0, 0, 0, last.frame.p1) >>
             /\ output_dat_avail(sp, w0) = Len(b)
             /\ get_output(sp, Len(b), w0)[1] = b
             /\ sp.input_buffer = last.pre_ports[PrePortOf].input_buffer
             /\ sp.input_buffer_w_index
                  = last.pre_ports[PrePortOf].input_buffer_w_index
             /\ PostClient.serial_instances = PreClient.serial_instances

\* C8: a SERR on an open handle for n bytes, a bytes being available on the
\* in buffer at the instance's cursor, is answered with {0,0,0,m} followed by
\* exactly m bytes, m = min(n, a): the m oldest unread bytes in write order.
C8_SerrClamped ==
    (/\ LastIsFrame
     /\ last.frame.cmd = PI_CMD_SERR
     /\ last.frame.p3 = 0
     /\ HandleOpen)
      => LET sp == last.pre_ports[PrePortOf]
             a == (sp.input_buffer_w_index - PreInst.input_buffer_r_index)
                    % sp.input_buffer_size
             m == Min(UnpackI(last.frame.p2), a)
             stream == written[PrePortOf].in
         IN  last.sent = << Words(0, 0, 0, m),
                            Raw(SubSeq(stream, Len(stream) - a + 1,
                                       Len(stream) - a + m)) >>

\* C9: a SERDA on an open handle is answered with {0,0,0,count}, count being
\* (in write cursor - the instance's in cursor) mod capacity, and changes no
\* cursor of a serial instance, no buffer and no write cursor.
C9_Serda ==
    (/\ LastIsFrame
     /\ last.frame.cmd = PI_CMD_SERDA
     /\ HandleOpen)
      => LET sp == last.pre_ports[PrePortOf]
         IN  /\ last.sent =
                  << Words(0, 0, 0,
                           (sp.input_buffer_w_index
                              - PreInst.input_buffer_r_index)
                             % sp.input_buffer_size) >>
             /\ PostClient.serial_instances = PreClient.serial_instances
             /\ serialports = last.pre_ports
             /\ PostClient.pc = "loop"

\* C9 witness: a SERDA answered with a positive count.
C9_Witness ==
    /\ LastIsFrame
    /\ last.frame.cmd = PI_CMD_SERDA
    /\ HandleOpen
    /\ \E k \in 1..PortCap : last.sent = << Words(0, 0, 0, k) >>

\* C10: a frame whose command is none of SERO, SERC, SERW, SERR, SERDA (SERRB
\* and SERWB included) makes the client send nothing on either socket, changes
\* no serial instance, cursor or buffer, and the loop goes on with both
\* sockets open.
C10_UnknownCommand ==
    (/\ LastIsFrame
     /\ last.frame.cmd \notin { PI_CMD_SERO, PI_CMD_SERC, PI_CMD_SERW,
                                PI_CMD_SERR, PI_CMD_SERDA })
      => /\ last.sent = << >>
         /\ PostClient.notification_sent = PreClient.notification_sent
         /\ PostClient.serial_instances = PreClient.serial_instances
         /\ serialports = last.pre_ports
         /\ PostClient.pc = "loop"
         /\ ~PostClient.want_stop
         /\ PostClient.main_conn = "open"
         /\ PostClient.notification_conn = "open"

\* C10 witness: a SERWB frame with an extension reached a client that holds
\* a serial instance on a port with unread input.
C10_Witness ==
    /\ LastIsFrame
    /\ last.frame.cmd = PI_CMD_SERWB
    /\ last.frame.p3 # 0
    /\ Len(PostClient.serial_instances) > 0
    /\ input_dat_avail(serialports[PostClient.serial_instances[1].serialport],
                       PostClient.serial_instances[1].input_buffer_r_index) > 0

\* --------------------------------------------- claims on malformed frames

\* The frame names a handle that indexes no serial instance of the client,
\* or is a SERO without extension.
Malformed ==
    \/ /\ last.frame.cmd \in { PI_CMD_SERC, PI_CMD_SERW, PI_CMD_SERR,
                               PI_CMD_SERDA }
       /\ ~HandleOpen
    \/ /\ last.frame.cmd = PI_CMD_SERO
       /\ last.frame.p3 = 0

\* C11: after every complete frame the client's loop is still running with
\* both sockets open, and a frame whose handle indexes no serial instance,
\* or a SERO with p3 = 0, is answered with a negative result or with nothing.
C11_NoCrash ==
    LastIsFrame
      => /\ PostClient.pc = "loop"
         /\ PostClient.main_conn = "open"
         /\ PostClient.notification_conn = "open"
         /\ Malformed
              => \/ last.sent = << >>
                 \/ \E e \in { -1, -2 } : last.sent = << Words(0, 0, 0, e) >>

\* ------------------------------------------------- claims on late binding

\* The last frame was a SERO that appended a serial instance.
SeroOpened ==
    /\ LastIsFrame
    /\ last.frame.cmd = PI_CMD_SERO
    /\ Len(PostClient.serial_instances) = Len(PreClient.serial_instances) + 1

\* The serial instance a successful SERO appended.
NewInst == PostClient.serial_instances[Len(PostClient.serial_instances)]

\* The bytes that had been written to the in buffer of its port when
\* instance h (counted from 1) of client i was bound.
WrittenBeforeBind(i, h) ==
    LET stream == written[client_connections[i].serial_instances[h]
                            .serialport].in
    IN  { stream[q] : q \in 1..bound[i][h].at }

\* C13: a SERO that opens a port sets the new instance's in and out cursors
\* to the port's in and out write cursors, so a SERDA right after it would
\* report 0; and no SERR payload holds a byte that was written to the in
\* buffer before the instance was bound.
C13_LateBinding ==
    /\ SeroOpened
         => /\ NewInst.input_buffer_r_index
                 = last.pre_ports[NewInst.serialport].input_buffer_w_index
            /\ NewInst.output_buffer_r_index
                 = last.pre_ports[NewInst.serialport].output_buffer_w_index
            /\ data_available_request(NewInst, serialports[NewInst.serialport])
                 = << Words(0, 0, 0, 0) >>
    /\ (LastIsFrame /\ last.frame.cmd = PI_CMD_SERR /\ Len(last.sent) = 2)
         => \A j \in 1..Len(last.sent[2].v) :
               last.sent[2].v[j]
                 \notin WrittenBeforeBind(last.client, last.frame.p1 + 1)

\* C13 witness: a SERR sent bytes through an instance that was bound when
\* its port's in buffer had already been written.
C13_Witness ==
    /\ LastIsFrame
    /\ last.frame.cmd = PI_CMD_SERR
    /\ Len(last.sent) = 2
    /\ Len(last.sent[2].v) > 0
    /\ bound[last.client][last.frame.p1 + 1].at > 0

\* --------------------------------------------- claims on session ordering

\* s is one response: four words 0,0,0,result, followed for a SERR by a
\* payload of result bytes, and by nothing for the other commands.
OneResponse(cmd, s) ==
    /\ Len(s) >= 1
    /\ s[1].kind = "words"
    /\ SubSeq(s[1].v, 1, 3) = << 0, 0, 0 >>
    /\ IF cmd = PI_CMD_SERR
       THEN /\ Len(s) = 2
            /\ s[2].kind = "raw"
            /\ Len(s[2].v) = s[1].v[4]
       ELSE Len(s) = 1

\* C17: every SERO, SERC, SERW, SERR and SERDA frame a client processes
\* produces exactly one response on the primary socket within its own loop
\* iteration (before the next frame is read), and the loop goes on to the
\* next frame.
C17_OneResponsePerFrame ==
    (/\ LastIsFrame
     /\ last.frame.cmd \in { PI_CMD_SERO, PI_CMD_SERC, PI_CMD_SERW,
                             PI_CMD_SERR, PI_CMD_SERDA })
      => /\ OneResponse(last.frame.cmd, last.sent)
         /\ PostClient.pc = "loop"

\* ------------------------------------------------ claims on buffer shape

\* C18: after any sequence of put_input and put_output calls both backing
\* storages have exactly their capacity in elements, each write cursor is in
\* 0..capacity-1, and a put moves its write cursor to
\* (previous cursor + number of bytes written) mod capacity.
C18_BufferShape ==
    /\ Len(BufPort.input_buffer) = BufPort.input_buffer_size
    /\ Len(BufPort.output_buffer) = BufPort.output_buffer_size
    /\ BufPort.input_buffer_w_index \in 0..(BufPort.input_buffer_size - 1)
    /\ BufPort.output_buffer_w_index \in 0..(BufPort.output_buffer_size - 1)
    /\ last.op = "put_input"
         => BufPort.input_buffer_w_index
              = (last.pre.input_buffer_w_index + Len(last.data))
                  % BufPort.input_buffer_size
    /\ last.op = "put_output"
         => BufPort.output_buffer_w_index
              = (last.pre.output_buffer_w_index + Len(last.data))
                  % BufPort.output_buffer_size

\* --------------------------------------------- claims on stream integrity

\* The bytes written to the in buffer of its port since instance h (counted
\* from 1) of client i was bound.
WrittenSinceBind(i, h) ==
    LET stream == written[client_connections[i].serial_instances[h]
                            .serialport].in
    IN  SubSeq(stream, bound[i][h].at + 1, Len(stream))

IsPrefix(s, t) == Len(s) <= Len(t) /\ s = SubSeq(t, 1, Len(s))

\* C19: for a serial instance whose unread backlog never reached the
\* capacity, a SERR moves the in cursor by exactly the number of bytes it
\* sent, and the SERR payloads sent so far, put end to end, are a prefix of
\* the bytes written to the in buffer since the bind.
C19_StreamIntegrity ==
    /\ \A i \in 1..Len(bound) : \A h \in 1..Len(bound[i]) :
          ~bound[i][h].overflow
            => IsPrefix(bound[i][h].got, WrittenSinceBind(i, h))
    /\ (/\ LastIsFrame
        /\ last.frame.cmd = PI_CMD_SERR
        /\ last.frame.p3 = 0
        /\ HandleOpen
        /\ ~bound[last.client][last.frame.p1 + 1].overflow)
         => /\ Len(last.sent) = 2
            /\ (PostClient.serial_instances[last.frame.p1 + 1]
                    .input_buffer_r_index
                  - PreInst.input_buffer_r_index)
                 % last.pre_ports[PrePortOf].input_buffer_size
                 = Len(last.sent[2].v)

\* ------------------------------------ specification of several sessions

\* The registry of the tools' main programs, and two clients constructed
\* over it the way PigpiodEmulator.run constructs them (after
\* establish_connection, with the ids 0 and 1), their threads started.
PairInit ==
    /\ serialports = << SerialPort(PortNameA, Baud, PortCap, PortCap),
                        SerialPort(PortNameU, Baud, PortCap, PortCap) >>
    /\ client_connections = << PigpioClient(0), PigpioClient(1) >>
    /\ last = NoOpS
    /\ nputs = 0
    /\ written = NoneWritten(serialports)
    /\ pigpiod = Accepting
    /\ bound = << << >>, << >> >>
    /\ pending = NoPending

\* Opens plus puts in one run with two clients: one more than with one.
PairOps == MaxOps + 1

\* The frames followed with several clients: the open of the first port,
\* a read of one byte or of as many as the buffer holds, and the count of
\* available bytes on the first two handles.
SrvSERO(i) ==
    /\ Ops < PairOps
    /\ RunFrame(i, Frame(PI_CMD_SERO, Baud, NoP2, PortNameA), "SERO")
    /\ UNCHANGED << nputs, written, pigpiod, pending >>

SrvSERR(i) ==
    /\ \E n \in WriteLens :
          RunFrame(i, Frame(PI_CMD_SERR, 0, PackI(n), << >>), "SERR")
    /\ UNCHANGED << nputs, written, pigpiod, pending >>

SrvSERDA(i) ==
    /\ \E f \in SerdaFrames : RunFrame(i, f, "SERDA")
    /\ UNCHANGED << nputs, written, pigpiod, pending >>

\* The device puts one fresh byte into the in buffer of the first port.
SrvPutInput ==
    /\ Ops < PairOps
    /\ LET data == TaggedData(Len(written[1].in), 1)
       IN  /\ serialports' = [serialports EXCEPT ![1] = put_input(@, data)]
           /\ last' = [NoOpS EXCEPT !.op = "put_input", !.port = 1,
                                    !.data = data,
                                    !.pre_ports = serialports,
                                    !.pre_clients = client_connections]
           /\ written' = [written EXCEPT ![1].in = @ \o data]
           /\ bound' = BoundAfterPut(1, Len(written[1].in) + 1)
    /\ nputs' = nputs + 1
    /\ UNCHANGED << client_connections, pigpiod, pending >>

\* recv(16) returns fewer than 16 bytes, or recv(p3) fewer than p3 bytes,
\* of a frame the peer has not sent whole: struct.unpack raises
\* struct.error, which nothing catches; run() ends before its two close()
\* calls.
RunTorn(i) ==
    /\ client_connections[i].pc = "loop"
    /\ ~client_connections[i].want_stop
    /\ client_connections[i].main_conn = "open"
    /\ client_connections' = [client_connections EXCEPT ![i] = Raise(@)]
    /\ last' = [NoOpS EXCEPT !.op = "torn", !.client = i,
                             !.pre_ports = serialports,
                             !.pre_client = client_connections[i],
                             !.pre_clients = client_connections]
    /\ UNCHANGED << serialports, nputs, written, pigpiod, bound, pending >>

\* recv raises an OSError other than socket.timeout (the peer reset the
\* connection): nothing catches it.
RunRecvError(i) ==
    /\ client_connections[i].pc = "loop"
    /\ ~client_connections[i].want_stop
    /\ client_connections[i].main_conn = "open"
    /\ client_connections' = [client_connections EXCEPT ![i] = Raise(@)]
    /\ last' = [NoOpS EXCEPT !.op = "recv_error", !.client = i,
                             !.pre_ports = serialports,
                             !.pre_client = client_connections[i],
                             !.pre_clients = client_connections]
    /\ UNCHANGED << serialports, nputs, written, pigpiod, bound, pending >>

\* PigpioClient.stop, called from another thread while the primary socket
\* is open: shutdown(SHUT_RDWR), then want_stop.
ClientStop(i) ==
    /\ client_connections[i].main_conn = "open"
    /\ client_connections' = [client_connections EXCEPT
           ![i].main_conn = "shutdown",
           ![i].want_stop = TRUE]
    /\ last' = [NoOpS EXCEPT !.op = "stop", !.client = i,
                             !.pre_ports = serialports,
                             !.pre_client = client_connections[i],
                             !.pre_clients = client_connections]
    /\ UNCHANGED << serialports, nputs, written, pigpiod, bound, pending >>

\* The loop after stop(): the loop test finds want_stop, or recv on the
\* shut down socket returns b''; both sockets are closed.
RunStopped(i) ==
    /\ client_connections[i].pc = "loop"
    /\ client_connections[i].want_stop
    /\ client_connections' = [client_connections EXCEPT
           ![i].pc = "done",
           ![i].main_conn = "closed",
           ![i].notification_conn = "closed"]
    /\ last' = [NoOpS EXCEPT !.op = "stopped", !.client = i,
                             !.pre_ports = serialports,
                             !.pre_client = client_connections[i],
                             !.pre_clients = client_connections]
    /\ UNCHANGED << serialports, nputs, written, pigpiod, bound, pending >>

PairNext ==
    \/ \E i \in Clients : RunStart(i)
    \/ \E i \in Clients : RunDisconnect(i)
    \/ \E i \in Clients : RunTorn(i)
    \/ \E i \in Clients : RunRecvError(i)
    \/ \E i \in Clients : ClientStop(i)
    \/ \E i \in Clients : RunStopped(i)
    \/ \E i \in Clients : SrvSERO(i)
    \/ \E i \in Clients : SrvSERR(i)
    \/ \E i \in Clients : SrvSERDA(i)
    \/ SrvPutInput

SpecPair == PairInit /\ [][PairNext]_vars

\* ---------------------------------------- specification of the server

\* The registry of the tools' main programs and the server thread in its
\* accept loop.
SrvInit ==
    /\ serialports = << SerialPort(PortNameA, Baud, PortCap, PortCap),
                        SerialPort(PortNameU, Baud, PortCap, PortCap) >>
    /\ client_connections = << >>
    /\ last = NoOpS
    /\ nputs = 0
    /\ written = NoneWritten(serialports)
    /\ pigpiod = Accepting
    /\ bound = << >>
    /\ pending = NoPending

\* PigpiodEmulator.run: the first accept of an iteration returns conn_1.
AcceptFirst ==
    /\ pigpiod.pc = "accept"
    /\ pigpiod.accepted < MaxOps
    /\ pigpiod' = [pigpiod EXCEPT !.pc = "accept2", !.accepted = @ + 1]
    /\ last' = [NoOpS EXCEPT !.op = "accept1",
                             !.pre_ports = serialports,
                             !.pre_clients = client_connections]
    /\ UNCHANGED << serialports, client_connections, nputs, written, bound,
                    pending >>

\* PigpiodEmulator.run: the second accept times out after 5 seconds;
\* `except socket.timeout: pass` goes back to the loop test with conn_1
\* held by no client, and the next iteration assigns conn_1 anew.
AcceptSecondTimeout ==
    /\ pigpiod.pc = "accept2"
    /\ pigpiod' = [pigpiod EXCEPT
                     !.pc = IF pigpiod.want_stop THEN "stopping" ELSE "accept"]
    /\ last' = [NoOpS EXCEPT !.op = "timeout2",
                             !.pre_ports = serialports,
                             !.pre_clients = client_connections]
    /\ UNCHANGED << serialports, client_connections, nputs, written, bound,
                    pending >>

\* PigpiodEmulator.run: the second accept of an iteration returns conn_2.
\* establish_connection sends the greeting on the second
\* connection; then `PigpioClient(...)` is evaluated, a name that
\* pigpiod_emulator.py neither defines nor imports: NameError, which the
\* `except socket.timeout` does not catch. No client is constructed, nothing
\* is appended, and run() ends there.
Accept ==
    /\ pigpiod.pc = "accept2"
    /\ pigpiod' = [pigpiod EXCEPT !.pc = "crashed",
                                  !.accepted = @ + 1,
                                  !.greeted = Append(@, << Greeting >>)]
    /\ last' = [NoOpS EXCEPT !.op = "accept",
                             !.pre_ports = serialports,
                             !.pre_clients = client_connections]
    /\ UNCHANGED << serialports, client_connections, nputs, written, bound,
                    pending >>

\* PigpiodEmulator.stop, called from another thread at any time.
ServerStop ==
    /\ ~pigpiod.want_stop
    /\ pigpiod' = [pigpiod EXCEPT !.want_stop = TRUE]
    /\ last' = [NoOpS EXCEPT !.op = "stop", !.pre_ports = serialports,
                             !.pre_clients = client_connections]
    /\ UNCHANGED << serialports, client_connections, nputs, written, bound,
                    pending >>

\* PigpiodEmulator.run: the first accept times out and the loop test finds
\* want_stop.
AcceptTimeout ==
    /\ pigpiod.pc = "accept"
    /\ pigpiod.want_stop
    /\ pigpiod' = [pigpiod EXCEPT !.pc = "stopping"]
    /\ last' = [NoOpS EXCEPT !.op = "timeout", !.pre_ports = serialports,
                             !.pre_clients = client_connections]
    /\ UNCHANGED << serialports, client_connections, nputs, written, bound,
                    pending >>

\* A server that closes its listening socket from inside the accept loop.
ServerClose_early ==
    /\ pigpiod.pc = "accept"
    /\ pigpiod' = [pigpiod EXCEPT !.pc = "closed", !.main_server = "closed"]
    /\ last' = [NoOpS EXCEPT !.op = "close", !.pre_ports = serialports,
                             !.pre_clients = client_connections]
    /\ UNCHANGED << serialports, client_connections, nputs, written, bound,
                    pending >>

\* PigpiodEmulator.run past the while loop: the for loop over
\* client_connections, a list run() has never appended to, and
\* self.main_server.close().
ServerClose ==
    /\ pigpiod.pc = "stopping"
    /\ client_connections = << >>
    /\ pigpiod' = [pigpiod EXCEPT !.pc = "closed", !.main_server = "closed"]
    /\ last' = [NoOpS EXCEPT !.op = "close", !.pre_ports = serialports,
                             !.pre_clients = client_connections]
    /\ UNCHANGED << serialports, client_connections, nputs, written, bound,
                    pending >>

\* The device's receive threads put bytes while the server runs.
SrvDevicePutInput(p) ==
    /\ nputs < MaxOps
    /\ \E data \in { TaggedData(Len(written[p].in), n) : n \in WriteLens }
                     \cup { << 200 >> } :
         /\ serialports' = [serialports EXCEPT ![p] = put_input(@, data)]
         /\ last' = [NoOpS EXCEPT !.op = "put_input", !.port = p,
                                  !.data = data,
                                  !.pre_ports = serialports]
         /\ written' = [written EXCEPT ![p].in = @ \o data]
    /\ nputs' = nputs + 1
    /\ UNCHANGED << client_connections, pigpiod, bound, pending >>

SrvNext ==
    \/ AcceptFirst
    \/ AcceptSecondTimeout
    \/ Accept
    \/ ServerStop
    \/ AcceptTimeout
    \/ ServerClose
    \/ \E p \in 1..Len(serialports) : SrvDevicePutInput(p)

SpecSrv == SrvInit /\ [][SrvNext]_vars

\* The steps the server thread takes with no peer taking part: the thread
\* is scheduled, and accept times out after 5 seconds.
ServerStep == AcceptTimeout \/ AcceptSecondTimeout \/ ServerClose

SpecSrvFair == SpecSrv /\ WF_vars(ServerStep)

\* ------------------- specification of read_request, one lock hold a step

\* One port, and one client whose loop has opened it: every step of a
\* read_request that takes the port's lock is an action of its own, and the
\* device's put_input may run between any two of them.
RaceClient(ports) ==
    run_frame([PigpioClient(0) EXCEPT !.pc = "loop",
                                      !.notification_sent = Append(@, Greeting)],
              ports, Frame(PI_CMD_SERO, Baud, NoP2, PortNameA)).client

RaceInit ==
    /\ \E cap \in 1..MaxCap :
          serialports = << SerialPort(PortNameA, Baud, cap, cap) >>
    /\ client_connections = << RaceClient(serialports) >>
    /\ last = NoOpS
    /\ nputs = 0
    /\ written = NoneWritten(serialports)
    /\ pigpiod = Accepting
    /\ bound = << << BoundAt(<< >>) >> >>
    /\ pending = NoPending

\* The serial instance and the port of the call in progress.
PendingInst == client_connections[pending.client]
                  .serial_instances[pending.handle + 1]
PendingPort == serialports[PendingInst.serialport]

\* The loop receives a SERR frame for n bytes on handle 0 and calls
\* read_request(n).
RaceRecvSERR ==
    /\ pending.pc = "none"
    /\ client_connections[1].pc = "loop"
    /\ \E n \in 0..MaxCap :
         pending' = [ pc |-> "check", client |-> 1, handle |-> 0, n |-> n,
                      size |-> n, avail |-> 0 ]
    /\ UNCHANGED << serialports, client_connections, last, nputs, written,
                    pigpiod, bound >>

\* read_request: the test `size > input_dat_avail(...)`.
RaceCheck ==
    /\ pending.pc = "check"
    /\ LET a == input_dat_avail(PendingPort, PendingInst.input_buffer_r_index)
       IN  pending' = [pending EXCEPT
                         !.avail = a,
                         !.pc = IF pending.size > a THEN "clamp" ELSE "get"]
    /\ UNCHANGED << serialports, client_connections, last, nputs, written,
                    pigpiod, bound >>

\* read_request: `size = input_dat_avail(...)`, a second call.
RaceClamp ==
    /\ pending.pc = "clamp"
    /\ LET a == input_dat_avail(PendingPort, PendingInst.input_buffer_r_index)
       IN  pending' = [pending EXCEPT !.avail = a, !.size = a, !.pc = "get"]
    /\ UNCHANGED << serialports, client_connections, last, nputs, written,
                    pigpiod, bound >>

\* read_request: get_input, the log line and the two sends.
RaceGet ==
    /\ pending.pc = "get"
    /\ LET c == client_connections[pending.client]
           f == Frame(PI_CMD_SERR, pending.handle, PackI(pending.n), << >>)
           got == get_input(PendingPort, pending.size,
                            PendingInst.input_buffer_r_index)
           raised == ~Utf8Valid(got[1])
           sent == IF raised THEN << >>
                   ELSE << Words(0, 0, 0, Len(got[1])), Raw(got[1]) >>
           c1 == [c EXCEPT !.serial_instances[pending.handle + 1]
                              .input_buffer_r_index = got[2]]
       IN  /\ client_connections' =
                [client_connections EXCEPT ![pending.client] =
                    IF raised THEN Raise(c1) ELSE c1]
           /\ last' = [NoOpS EXCEPT !.op = "SERR", !.client = pending.client,
                                    !.frame = f, !.sent = sent,
                                    !.pre_ports = serialports,
                                    !.pre_client = c,
                                    !.pre_clients = client_connections]
           /\ bound' = [bound EXCEPT ![pending.client][pending.handle + 1].got =
                           IF raised THEN @ ELSE @ \o got[1]]
    /\ pending' = NoPending
    /\ UNCHANGED << serialports, nputs, written, pigpiod >>

\* The device's put_input, at any moment.
RacePutInput ==
    /\ nputs < MaxPuts
    /\ \E n \in 1..(MaxCap - 1) :
         LET data == TaggedData(Len(written[1].in), n)
         IN  /\ serialports' = [serialports EXCEPT ![1] = put_input(@, data)]
             /\ last' = [NoOpS EXCEPT !.op = "put_input", !.port = 1,
                                      !.data = data,
                                      !.pre_ports = serialports]
             /\ written' = [written EXCEPT ![1].in = @ \o data]
             /\ bound' = BoundAfterPut(1, Len(written[1].in) + Len(data))
    /\ nputs' = nputs + 1
    /\ UNCHANGED << client_connections, pigpiod, pending >>

RaceNext ==
    \/ RaceRecvSERR
    \/ RaceCheck
    \/ RaceClamp
    \/ RaceGet
    \/ RacePutInput

SpecRace == RaceInit /\ [][RaceNext]_vars

\* C20: whatever put_input calls run between the steps of a read_request
\* for n bytes, the payload sent has at most n bytes, and every byte of it
\* had been written to the in buffer when get_input read it.
C20_SerrInterleaved ==
    (/\ LastIsFrame
     /\ last.frame.cmd = PI_CMD_SERR
     /\ Len(last.sent) = 2)
      => /\ Len(last.sent[2].v) <= UnpackI(last.frame.p2)
         /\ \A j \in 1..Len(last.sent[2].v) :
               \E q \in 1..Len(written[PrePortOf].in) :
                  last.sent[2].v[j] = written[PrePortOf].in[q]

\* ---------------------------------------------- claims on several sessions

\* Every client but the one that acted is as it was before the last step.
OthersUntouched ==
    \A j \in 1..Len(last.pre_clients) :
       j # last.client => client_connections[j] = last.pre_clients[j]

\* Another client holds a serial instance of the port the frame's handle
\* is bound to.
SharedPort ==
    \E j \in 1..Len(last.pre_clients) :
       /\ j # last.client
       /\ \E h \in 1..Len(last.pre_clients[j].serial_instances) :
             last.pre_clients[j].serial_instances[h].serialport = PrePortOf

\* C12: with two serial instances of two clients on one port, a SERR or
\* SERDA through one serial instance changes no other
\* client's cursors and no stored byte, and a SERR for n bytes through an
\* instance whose backlog never reached the capacity sends the next
\* min(n, backlog) bytes written to the in buffer since its own bind, so that
\* what it got so far is a prefix of those bytes, wherever other instances
\* of the same port stand.
C12_IndependentBindings ==
    (/\ LastIsFrame
     /\ last.frame.cmd \in { PI_CMD_SERR, PI_CMD_SERDA }
     /\ HandleOpen
     /\ SharedPort)
      => /\ OthersUntouched
         /\ serialports = last.pre_ports
         /\ (/\ last.frame.cmd = PI_CMD_SERR
             /\ ~bound[last.client][last.frame.p1 + 1].overflow)
              => LET h == last.frame.p1 + 1
                     got == bound[last.client][h].got
                     since == WrittenSinceBind(last.client, h)
                 IN  /\ Len(last.sent) = 2
                     /\ IsPrefix(got, since)
                     /\ Len(last.sent[2].v)
                          = Min(UnpackI(last.frame.p2),
                                Len(since) - (Len(got) - Len(last.sent[2].v)))

\* C14 as stated: when the peer closes the primary socket the client's loop
\* ends, its list of serial instances is emptied, both of its sockets are
\* closed, and every other client and every port is as before.
C14_DisconnectReleases ==
    last.op = "disconnect"
      => /\ PostClient.pc = "done"
         /\ PostClient.serial_instances = << >>
         /\ PostClient.main_conn = "closed"
         /\ PostClient.notification_conn = "closed"
         /\ OthersUntouched
         /\ serialports = last.pre_ports

\* C15: once stop() has been called, the server's listening socket is
\* eventually closed, whatever connections the server has accepted.
C15_ShutdownCompletes ==
    pigpiod.want_stop ~> (pigpiod.main_server = "closed")

\* C16: for every connection pair the server accepted there is a client,
\* and the pair's notification socket has carried exactly one greeting
\* {10,0,0,0} from establish_connection while the client's thread has not
\* passed its start, exactly two afterwards, and nothing else.
C16_Greeting ==
    /\ Len(client_connections) = Len(pigpiod.greeted)
    /\ \A i \in 1..Len(client_connections) :
          client_connections[i].notification_sent
            = IF client_connections[i].pc = "start"
              THEN << Words(10, 0, 0, 0) >>
              ELSE << Words(10, 0, 0, 0), Words(10, 0, 0, 0) >>
    /\ LastIsFrame
         => PreClient.notification_sent
              = << Words(10, 0, 0, 0), Words(10, 0, 0, 0) >>

\* ------------------ specification of put_output, one statement a step

\* The assignments put_output makes to the storage, for the goal_index it
\* computed before: the value of output_buffer afterwards.
put_output_buffer(sp, data, goal_index) ==
    LET w == sp.output_buffer_w_index
        size == sp.output_buffer_size
    IN  IF w + Len(data) > size
        THEN PySetSlice(PySetSlice(sp.output_buffer, w, Len(sp.output_buffer),
                                   PySlice(data, 0, size - w)),
                        0, goal_index, PySlice(data, size - w, Len(data)))
        ELSE PySetSlice(sp.output_buffer, w, goal_index, data)

\* A client whose loop has opened the first port (handle 0).
LockClient(id, ports) ==
    run_frame([PigpioClient(id) EXCEPT !.pc = "loop",
                                       !.notification_sent = Append(@, Greeting)],
              ports, Frame(PI_CMD_SERO, Baud, NoP2, PortNameA)).client

\* No write_request call in progress in a thread.
NoCall == [ pc |-> "none", data |-> << >>, goal_index |-> 0 ]

\* The payload client i writes: n bytes that tell the client and the place.
LockData(i, n) == [j \in 1..n |-> 10 * i + j]

\* One port of capacity 2..MaxCap+1 whose out buffer has been written k
\* bytes, and two clients whose loops have opened it afterwards.
LockInit ==
    /\ \E cap \in 2..(MaxCap + 1) : \E k \in 0..(cap - 1) :
          /\ serialports = << put_output(SerialPort(PortNameA, Baud, cap, cap),
                                         TaggedData(0, k)) >>
          /\ written = << [in |-> << >>, out |-> TaggedData(0, k)] >>
    /\ client_connections = << LockClient(0, serialports),
                               LockClient(1, serialports) >>
    /\ last = NoOpS
    /\ nputs = 0
    /\ pigpiod = Accepting
    /\ bound = << << BoundAt(<< >>) >>, << BoundAt(<< >>) >> >>
    /\ pending = << NoCall, NoCall >>

\* Thread i is between lock.acquire() and lock.release() of the port.
HoldsLock(i) == pending[i].pc \in { "goal", "write", "index", "release" }

LockFree == \A i \in 1..Len(pending) : ~HoldsLock(i)

\* The loop of client i receives a SERW frame for handle 0 with n bytes and
\* calls write_request, which unpacks them and calls put_output.
LockRecvSERW(i) ==
    /\ pending[i].pc = "none"
    /\ client_connections[i].pc = "loop"
    /\ \E n \in 1..(MaxCap - 1) :
         pending' = [pending EXCEPT ![i] =
                        [ pc |-> "acquire", data |-> LockData(i, n),
                          goal_index |-> 0 ]]
    /\ UNCHANGED << serialports, client_connections, last, nputs, written,
                    pigpiod, bound >>

\* A lock.acquire() that does not wait for the lock.
LockAcquire_nolock(i) ==
    /\ pending[i].pc = "acquire"
    /\ pending' = [pending EXCEPT ![i].pc = "goal"]
    /\ UNCHANGED << serialports, client_connections, last, nputs, written,
                    pigpiod, bound >>

\* put_output: self.lock.acquire() returns once no thread holds the lock.
LockAcquire(i) ==
    /\ pending[i].pc = "acquire"
    /\ LockFree
    /\ pending' = [pending EXCEPT ![i].pc = "goal"]
    /\ UNCHANGED << serialports, client_connections, last, nputs, written,
                    pigpiod, bound >>

\* put_output: goal_index = (w + len(data)) % size.
LockGoal(i) ==
    /\ pending[i].pc = "goal"
    /\ pending' = [pending EXCEPT
          ![i].goal_index = (serialports[1].output_buffer_w_index
                               + Len(pending[i].data))
                              % serialports[1].output_buffer_size,
          ![i].pc = "write"]
    /\ UNCHANGED << serialports, client_connections, last, nputs, written,
                    pigpiod, bound >>

\* put_output: the test and the slice assignments of its branch.
LockWrite(i) ==
    /\ pending[i].pc = "write"
    /\ serialports' = [serialports EXCEPT ![1].output_buffer =
          put_output_buffer(serialports[1], pending[i].data,
                            pending[i].goal_index)]
    /\ written' = [written EXCEPT ![1].out = @ \o pending[i].data]
    /\ pending' = [pending EXCEPT ![i].pc = "index"]
    /\ UNCHANGED << client_connections, last, nputs, pigpiod, bound >>

\* put_output: self.output_buffer_w_index = goal_index.
LockIndex(i) ==
    /\ pending[i].pc = "index"
    /\ serialports' = [serialports EXCEPT
          ![1].output_buffer_w_index = pending[i].goal_index]
    /\ pending' = [pending EXCEPT ![i].pc = "release"]
    /\ UNCHANGED << client_connections, last, nputs, written, pigpiod, bound >>

\* put_output: self.lock.release().
LockRelease(i) ==
    /\ pending[i].pc = "release"
    /\ pending' = [pending EXCEPT ![i].pc = "reply"]
    /\ UNCHANGED << serialports, client_connections, last, nputs, written,
                    pigpiod, bound >>

\* write_request after put_output: the log line and the response.
LockReply(i) ==
    /\ pending[i].pc = "reply"
    /\ LET c == client_connections[i]
           inst == c.serial_instances[1]
           raised == ~Utf8Valid(pending[i].data)
       IN  /\ client_connections' = [client_connections EXCEPT ![i] =
                 IF raised THEN Raise(c) ELSE c]
           /\ last' = [NoOpS EXCEPT
                 !.op = "SERW", !.client = i,
                 !.frame = Frame(PI_CMD_SERW, 0, NoP2, pending[i].data),
                 !.sent = IF raised THEN << >>
                          ELSE << Words(0, 0, 0, inst.handle_id) >>,
                 !.pre_ports = serialports,
                 !.pre_client = c,
                 !.pre_clients = client_connections]
    /\ pending' = [pending EXCEPT ![i].pc = "done"]
    /\ nputs' = nputs + 1
    /\ UNCHANGED << serialports, written, pigpiod, bound >>

\* The device reads the out side (the tools' main loop): one whole
\* get_output call, made when it gets the lock.
LockDeviceRead ==
    /\ LockFree
    /\ \E read_index \in 0..(serialports[1].output_buffer_size - 1),
          n \in 0..serialports[1].output_buffer_size :
         last' = [NoOpS EXCEPT
            !.op = "get_output", !.port = 1,
            !.data = get_output(serialports[1], n, read_index)[1],
            !.pre_ports = serialports,
            !.pre_clients = client_connections]
    /\ UNCHANGED << serialports, client_connections, nputs, written,
                    pigpiod, bound, pending >>

LockNext ==
    \/ \E i \in Clients : LockRecvSERW(i)
    \/ \E i \in Clients : LockAcquire(i)
    \/ \E i \in Clients : LockGoal(i)
    \/ \E i \in Clients : LockWrite(i)
    \/ \E i \in Clients : LockIndex(i)
    \/ \E i \in Clients : LockRelease(i)
    \/ \E i \in Clients : LockReply(i)
    \/ LockDeviceRead

SpecLock == LockInit /\ [][LockNext]_vars

\* ------------------------------------------------ claims on the lock

\* The out storage read cyclically: n bytes from index w0.
OutFrom(sp, w0, n) ==
    [j \in 1..n |-> sp.output_buffer[((w0 + j - 1) % sp.output_buffer_size) + 1]]

\* C21: no two threads are inside put_output at once; and when two clients
\* have each written one payload (a and b, len(a)+len(b) below the
\* capacity) to the same port, the out storage holds a then b or b then a
\* from the write index as it was before, and the write index has moved on
\* by len(a)+len(b) modulo the capacity.
C21_AtomicWrites ==
    /\ \A i, j \in 1..Len(pending) :
          (HoldsLock(i) /\ HoldsLock(j)) => i = j
    /\ (/\ pending[1].pc = "done"
        /\ pending[2].pc = "done"
        /\ Len(pending[1].data) + Len(pending[2].data)
             < serialports[1].output_buffer_size)
         => LET a == pending[1].data
                b == pending[2].data
                size == serialports[1].output_buffer_size
                w0 == Len(written[1].out) - Len(a) - Len(b)
            IN  /\ OutFrom(serialports[1], w0, Len(a) + Len(b))
                     \in { a \o b, b \o a }
                /\ serialports[1].output_buffer_w_index
                     = (w0 + Len(a) + Len(b)) % size

\* C21 witness: both clients have been answered after two writes, below
\* the capacity together, that took the write index past the end of the
\* storage.
C21_Witness ==
    /\ pending[1].pc = "done"
    /\ pending[2].pc = "done"
    /\ Len(pending[1].data) + Len(pending[2].data)
         < serialports[1].output_buffer_size
    /\ serialports[1].output_buffer_w_index
         < Len(written[1].out) - Len(pending[1].data) - Len(pending[2].data)

\* ------------------------------------------ claims on writes and readers

\* The serial instances of the port of the last put_input that the put
\* overran, as pairs << client, index in its list >>.
OverrunReaders ==
    { ih \in { << i, h >> : i \in 1..Len(last.pre_clients), h \in 1..MaxOps } :
        /\ ih[2] <= Len(last.pre_clients[ih[1]].serial_instances)
        /\ last.pre_clients[ih[1]].serial_instances[ih[2]].serialport
             = last.port
        /\ Overrun(last.pre_ports[last.port],
                   last.pre_clients[ih[1]].serial_instances[ih[2]]
                      .input_buffer_r_index,
                   Len(last.data)) }

\* C22: a put_input completes whatever the readers' cursors are: the write
\* index has moved on by len(data) modulo the capacity, no client record
\* (and so no cursor) has changed, and for a reader it overran the byte at
\* the reader's cursor is now one of the bytes just written, while its
\* availability is still a count below the capacity (nothing reports the
\* loss).
C22_LossyOverwrite ==
    last.op = "put_input"
      => LET pre == last.pre_ports[last.port]
             post == serialports[last.port]
         IN  /\ post.input_buffer_w_index
                  = (pre.input_buffer_w_index + Len(last.data))
                      % pre.input_buffer_size
             /\ client_connections = last.pre_clients
             /\ \A ih \in OverrunReaders :
                   LET r == client_connections[ih[1]].serial_instances[ih[2]]
                               .input_buffer_r_index
                   IN  /\ \E j \in 1..Len(last.data) :
                              post.input_buffer[r + 1] = last.data[j]
                       /\ input_dat_avail(post, r) \in
                             0..(post.input_buffer_size - 1)

\* C22 witness: a put_input has just overrun the unread position of a
\* serial instance.
C22_Witness ==
    /\ last.op = "put_input"
    /\ OverrunReaders # {}

\* ------------------------------------------------------ claims on reads

\* The last operation of the buffer specification was a read.
LastIsRead ==
    last.op \in { "get_input", "get_output", "input_dat_avail",
                  "output_dat_avail" }

C24_SocketsClosed ==
    last.op \in { "disconnect", "recv_error", "torn", "stopped" }
      => /\ PostClient.pc \in { "done", "crashed" }
         /\ PostClient.main_conn = "closed"
         /\ PostClient.notification_conn = "closed"

\* ------------------------------------------------ claims on the server

C26_Pairing ==
    pigpiod.pc # "accept2"
      => pigpiod.accepted = 2 * Len(client_connections)

\* C27: the k-th pair the server accepted has a client, at position k of
\* client_connections, whose id is k-1; so the ids are pairwise distinct
\* and increase with the position.
C27_SessionIds ==
    /\ \A k \in 1..Len(pigpiod.greeted) :
          /\ k <= Len(client_connections)
          /\ client_connections[k].id = k - 1
    /\ \A i \in 1..Len(client_connections) : client_connections[i].id = i - 1

\* ------------------------------------------------ claims on the handles

\* The last frame was a SERO answered with a handle (a non-negative result).
SeroAnswered ==
    /\ LastIsFrame
    /\ last.frame.cmd = PI_CMD_SERO
    /\ Len(last.sent) = 1
    /\ last.sent[1].v[4] >= 0

\* C28: every serial instance carries its index in its client's list as
\* handle; a frame leaves the instances that existed where they were, bound
\* to the same ports, also a SERC; a SERO that is answered with a handle
\* appends one instance and answers the next index; every other frame
\* leaves the length of the list as it was.
C28_HandleStability ==
    /\ \A i \in 1..Len(client_connections) :
          \A h \in 1..Len(client_connections[i].serial_instances) :
             client_connections[i].serial_instances[h].handle_id = h - 1
    /\ LastIsFrame
         => /\ \A h \in 1..Len(PreClient.serial_instances) :
                  /\ h <= Len(PostClient.serial_instances)
                  /\ PostClient.serial_instances[h].serialport
                       = PreClient.serial_instances[h].serialport
                  /\ PostClient.serial_instances[h].handle_id
                       = PreClient.serial_instances[h].handle_id
            /\ Len(PostClient.serial_instances)
                 = IF SeroAnswered
                   THEN Len(PreClient.serial_instances) + 1
                   ELSE Len(PreClient.serial_instances)
            /\ SeroAnswered
                 => last.sent[1].v[4] = Len(PreClient.serial_instances)

\* C28 witness: a SERC for handle 0 has been answered while the client held
\* two serial instances.
C28_Witness ==
    /\ last.op = "SERC"
    /\ last.frame.p1 = 0
    /\ last.sent # << >>
    /\ Len(PreClient.serial_instances) = 2
    /\ Len(PostClient.serial_instances) = 2

\* ------------------------------------------- claims on the extension

\* C29: a SERO frame with p3 = 0 appends no serial instance and is not
\* answered with a handle, whatever frames the client received before.
C29_FrameLocalOpen ==
    (/\ LastIsFrame
     /\ last.frame.cmd = PI_CMD_SERO
     /\ last.frame.p3 = 0)
      => /\ PostClient.serial_instances = PreClient.serial_instances
         /\ ~SeroAnswered

====
